---- MODULE Spec2Model ----
(***************************************************************************)
(* A model of nsq.message.Message (src/nsq/message.py): the respond-once   *)
(* guard, the client-side msg_timeout timer and the notifications the      *)
(* Message triggers.                                                       *)
(*                                                                         *)
(* One Message is modelled. Everything runs on one cooperative event loop: *)
(* a timer fires only on a turn of the loop (no handler is running), while *)
(* the methods of the Message may be called on a turn of the loop or from  *)
(* inside a handler that a notification is being dispatched to. `stack`    *)
(* holds the notifications being dispatched, innermost last. A handler     *)
(* that calls a method whose contract check fails is taken to go on: the   *)
(* failed call changes nothing and only its outcome is recorded in `last`. *)
(***************************************************************************)
EXTENDS Integers, Sequences, FiniteSets

\* ---------------------------------------------------------------- bounds
MaxLog == 3        \* notifications triggered in one behaviour
MaxDepth == 2      \* notifications being dispatched at once
MaxTimers == 2     \* PeriodicCallback objects created in one behaviour

\* ---------------------------------------------------------------- values
Msg == "message"                 \* the Message instance (self)
Conns == {"conn1", "conn2"}      \* AsyncConn instances
None == "None"

\* event names of nsq.event used by message.py
FINISH == "finish"
REQUEUE == "requeue"
TOUCH == "touch"
MESSAGE_TIMEOUT == "message_timeout"

\* A keyword argument is a set: {} when the key is not passed, {v} when it is.
\* A delay is a value with its Python type; only an int passes isinstance(.., int).
DelayArgs == [type : {"int"}, val : {-1, 0, 2}] \cup [type : {"float"}, val : {2}]
Kwargs == [backoff : {{}, {TRUE}, {FALSE}},
           delay : {{}} \cup {{d} : d \in DelayArgs},
           time_ms : {{}}]
NoKwargs == [backoff |-> {}, delay |-> {}, time_ms |-> {}]

\* The arguments of Message(id, body, timestamp, attempts).
Messages == {[id |-> "id1", body |-> "body", timestamp |-> 2, attempts |-> 3]}

VARIABLES
    id,              \* self.id
    body,            \* self.body
    timestamp,       \* self.timestamp
    attempts,        \* self.attempts
    has_responded,   \* self._has_responded
    async_enabled,   \* self._async_enabled
    timeout,         \* self.timeout: 0 for None, else an index into timers
    conn,            \* self.conn: None or a connection
    timers,          \* the PeriodicCallback objects created so far, with the
                     \* async_conn each callback closure captured
    stack,           \* notifications being dispatched, innermost last
    log,             \* every notification triggered so far, in order
    last,            \* the most recent call and its outcome
    tick,            \* flips at every call and every timer firing
    lateArm          \* _set_timeout was called on a responded Message

fields == <<id, body, timestamp, attempts>>

vars == <<id, body, timestamp, attempts, has_responded, async_enabled, timeout, conn, timers, stack, log,
          last, tick, lateArm>>

\* ------------------------------------------------------- PeriodicCallback
\* tornado.ioloop.PeriodicCallback: start() sets it running, stop() clears it;
\* `fired` counts the runs of its callback.
NewTimer(c) == [running |-> TRUE, conn |-> c, fired |-> 0]

\* _clear_timeout that stops nothing
ClearTimeoutNoop(ts, t) == ts
\* Message._clear_timeout: stop the current timer if there is one.
ClearTimeout(ts, t) == IF t # 0 THEN [ts EXCEPT ![t].running = FALSE] ELSE ts

\* _set_timeout that starts the new timer without stopping the old one
SetTimeoutTimersNoClear(ts, t, c) == Append(ts, NewTimer(c))
\* Message._set_timeout: clear, then create and start a new PeriodicCallback.
SetTimeoutTimers(ts, t, c) == Append(ClearTimeout(ts, t), NewTimer(c))

\* finish triggers FINISH without having stopped the timer
FinishTimersKept(ts, t) == ts
\* requeue forgets to stop the timer
RequeueTimersKept(ts, t) == ts
\* touch leaves the timer as it is instead of re-arming it
TouchTimersNoRearm(ts, t, c) == ts
\* touch arms a timer even when the Message never had one
TouchTimersAlways(ts, t, c) == SetTimeoutTimers(ts, t, c)
\* finish and requeue call self._clear_timeout(); touch re-arms the timer with
\* self.conn when the Message has one (if self.timeout: self._set_timeout(..)).
FinishTimers(ts, t) == ClearTimeout(ts, t)
RequeueTimers(ts, t) == ClearTimeout(ts, t)
TouchTimers(ts, t, c) == IF t # 0 THEN SetTimeoutTimers(ts, t, c) ELSE ts

\* a callback that never stops its timer: a plain periodic timer
CallbackTailKeep(ts, t) == ts
\* The tail of the timer callback: if self.timeout.is_running(): clear it.
\* self.timeout is the Message's current timer, whichever timer is firing.
CallbackTail(ts, t) == IF ts[t].running THEN ClearTimeout(ts, t) ELSE ts

\* is_alive that answers False instead of failing when there is no timer
IsAliveNoAssert ==
    IF timeout = 0 THEN [ok |-> TRUE, val |-> FALSE]
    ELSE [ok |-> TRUE, val |-> timers[timeout].running]
\* Message.is_alive: assert self.timeout is not None; return is_running().
IsAliveResult ==
    IF timeout = 0 THEN [ok |-> FALSE, val |-> FALSE]
    ELSE [ok |-> TRUE, val |-> timers[timeout].running]

\* has_responded that returns the other flag of the Message
HasRespondedOtherFlag == async_enabled
\* Message.has_responded: return self._has_responded
HasRespondedResult == has_responded

\* enable_async that flips the flag instead of setting it
EnableAsyncToggle == ~async_enabled
\* Message.enable_async: self._async_enabled = True
EnableAsyncValue == TRUE

\* ---------------------------------------------------------- notifications
\* The context of MESSAGE_TIMEOUT: trigger(.., conn=self, message=self).
TimeoutContext(c) == [conn |-> Msg, message |-> Msg]

TimeoutEvent(c) == [name |-> MESSAGE_TIMEOUT, target |-> c, ctx |-> TimeoutContext(c)]
FinishEvent == [name |-> FINISH, target |-> Msg, ctx |-> [message |-> Msg]]
TouchEvent == [name |-> TOUCH, target |-> Msg, ctx |-> [message |-> Msg]]

\* normalisation that also converts a delay of 0
RequeueKwargsFromZero(kw) ==
    IF kw.delay # {} /\ (\E d \in kw.delay : d.type = "int" /\ d.val >= 0)
    THEN [kw EXCEPT !.time_ms = {d.val * 1000 : d \in kw.delay}]
    ELSE kw
\* normalisation that rebuilds the keyword arguments and loses backoff
RequeueKwargsDropBackoff(kw) ==
    IF kw.delay # {} /\ (\E d \in kw.delay : d.type = "int" /\ d.val > 0)
    THEN [backoff |-> {}, delay |-> kw.delay,
          time_ms |-> {d.val * 1000 : d \in kw.delay}]
    ELSE kw
\* normalisation that fills in backoff=True and delay=-1 when they are not passed
RequeueKwargsDefaults(kw) ==
    [backoff |-> IF kw.backoff = {} THEN {TRUE} ELSE kw.backoff,
     delay |-> IF kw.delay = {} THEN {[type |-> "int", val |-> -1]} ELSE kw.delay,
     time_ms |-> IF kw.delay # {} /\ (\E d \in kw.delay : d.type = "int" /\ d.val > 0)
                 THEN {d.val * 1000 : d \in kw.delay} ELSE kw.time_ms]
\* requeue's normalisation of its keyword arguments (delay to time_ms).
RequeueKwargs(kw) ==
    IF kw.delay # {} /\ (\E d \in kw.delay : d.type = "int" /\ d.val > 0)
    THEN [kw EXCEPT !.time_ms = {d.val * 1000 : d \in kw.delay}]
    ELSE kw

\* `args` keeps the keyword arguments requeue was called with.
RequeueEvent(kw) ==
    [name |-> REQUEUE, target |-> Msg,
     ctx |-> [message |-> Msg, kwargs |-> RequeueKwargs(kw)], args |-> kw]

\* requeue counts the attempt on the client side
RequeueAttemptsCounted(a) == a + 1
\* Message.requeue leaves self.attempts as it is, as every method does.
RequeueAttempts(a) == a

\* methods without their contract check
FinishUnchecked == TRUE
RequeueUnchecked == TRUE
TouchUnchecked == TRUE
\* the contract checks: assert not self._has_responded
FinishOk == ~has_responded
RequeueOk == ~has_responded
TouchOk == ~has_responded

\* EventedMixin.trigger calls the handlers synchronously, on the caller's turn
\* of the loop: a frame stands for one notification being dispatched.
Frame(ev) == [ev |-> ev]
Outcome(op, ok, val) == [op |-> op, ok |-> ok, val |-> val]

\* ------------------------------------------------------------------- Init
Init ==
    /\ \E m \in Messages :
        /\ id = m.id
        /\ body = m.body
        /\ timestamp = m.timestamp
        /\ attempts = m.attempts
    /\ has_responded = FALSE
    /\ async_enabled = FALSE
    /\ timeout = 0
    /\ conn = None
    /\ timers = <<>>
    /\ stack = <<>>
    /\ log = <<>>
    /\ last = Outcome("init", TRUE, FALSE)
    /\ tick = FALSE
    /\ lateArm = FALSE

\* ---------------------------------------------------------------- actions
\* Message._set_timeout(async_conn)
SetTimeout(c) ==
    /\ UNCHANGED fields
    /\ Len(timers) < MaxTimers
    /\ conn' = c
    /\ timers' = SetTimeoutTimers(timers, timeout, c)
    /\ timeout' = Len(timers')
    /\ lateArm' = (lateArm \/ has_responded)
    /\ last' = Outcome("_set_timeout", TRUE, FALSE)
    /\ tick' = ~tick
    /\ UNCHANGED <<has_responded, async_enabled, stack, log>>

\* A running PeriodicCallback runs its callback on a turn of the loop: the
\* callback triggers MESSAGE_TIMEOUT on the async_conn it captured.
Fire(t) ==
    /\ UNCHANGED fields
    /\ stack = <<>>
    /\ Len(log) < MaxLog
    /\ timers[t].running
    /\ timers' = [timers EXCEPT ![t].fired = @ + 1]
    /\ log' = Append(log, TimeoutEvent(timers[t].conn))
    /\ stack' = Append(stack, Frame(MESSAGE_TIMEOUT))
    /\ last' = Outcome("callback", TRUE, FALSE)
    /\ tick' = ~tick
    /\ UNCHANGED <<has_responded, async_enabled, timeout, conn, lateArm>>

\* The MESSAGE_TIMEOUT handlers have returned: the rest of the callback.
CallbackReturn ==
    /\ UNCHANGED fields
    /\ stack # <<>>
    /\ stack[Len(stack)].ev = MESSAGE_TIMEOUT
    /\ timers' = CallbackTail(timers, timeout)
    /\ stack' = SubSeq(stack, 1, Len(stack) - 1)
    /\ UNCHANGED <<has_responded, async_enabled, timeout, conn, log, last,
                   tick, lateArm>>

\* The handlers of FINISH, REQUEUE or TOUCH have returned; the method that
\* triggered the notification has nothing left to do.
HandlerReturn ==
    /\ UNCHANGED fields
    /\ stack # <<>>
    /\ stack[Len(stack)].ev # MESSAGE_TIMEOUT
    /\ stack' = SubSeq(stack, 1, Len(stack) - 1)
    /\ UNCHANGED <<has_responded, async_enabled, timeout, conn, timers, log,
                   last, tick, lateArm>>

\* Message.finish()
Finish ==
    /\ UNCHANGED fields
    /\ tick' = ~tick
    /\ IF FinishOk
       THEN /\ Len(stack) < MaxDepth
            /\ Len(log) < MaxLog
            /\ has_responded' = TRUE
            /\ timers' = FinishTimers(timers, timeout)
            /\ log' = Append(log, FinishEvent)
            /\ stack' = Append(stack, Frame(FINISH))
            /\ last' = Outcome("finish", TRUE, FALSE)
       ELSE /\ last' = Outcome("finish", FALSE, FALSE)
            /\ UNCHANGED <<has_responded, timers, log, stack>>
    /\ UNCHANGED <<async_enabled, timeout, conn, lateArm>>

\* Message.requeue(**kwargs)
Requeue(kw) ==
    /\ UNCHANGED <<id, body, timestamp>>
    /\ attempts' = RequeueAttempts(attempts)
    /\ tick' = ~tick
    /\ IF RequeueOk
       THEN /\ Len(stack) < MaxDepth
            /\ Len(log) < MaxLog
            /\ has_responded' = TRUE
            /\ timers' = RequeueTimers(timers, timeout)
            /\ log' = Append(log, RequeueEvent(kw))
            /\ stack' = Append(stack, Frame(REQUEUE))
            /\ last' = Outcome("requeue", TRUE, FALSE)
       ELSE /\ last' = Outcome("requeue", FALSE, FALSE)
            /\ UNCHANGED <<has_responded, timers, log, stack>>
    /\ UNCHANGED <<async_enabled, timeout, conn, lateArm>>

\* Message.touch()
Touch ==
    /\ UNCHANGED fields
    /\ tick' = ~tick
    /\ IF TouchOk
       THEN /\ Len(stack) < MaxDepth
            /\ Len(log) < MaxLog
            /\ timeout # 0 => Len(timers) < MaxTimers
            /\ timers' = TouchTimers(timers, timeout, conn)
            /\ timeout' = Len(timers')
            /\ log' = Append(log, TouchEvent)
            /\ stack' = Append(stack, Frame(TOUCH))
            /\ last' = Outcome("touch", TRUE, FALSE)
       ELSE /\ last' = Outcome("touch", FALSE, FALSE)
            /\ UNCHANGED <<timers, timeout, log, stack>>
    /\ UNCHANGED <<has_responded, async_enabled, conn, lateArm>>

\* Message.enable_async()
EnableAsync ==
    /\ UNCHANGED fields
    /\ tick' = ~tick
    /\ async_enabled' = EnableAsyncValue
    /\ last' = Outcome("enable_async", TRUE, FALSE)
    /\ UNCHANGED <<has_responded, timeout, conn, timers, stack, log, lateArm>>

\* Message.is_async()
IsAsync ==
    /\ UNCHANGED fields
    /\ tick' = ~tick
    /\ last' = Outcome("is_async", TRUE, async_enabled)
    /\ UNCHANGED <<has_responded, async_enabled, timeout, conn, timers, stack,
                   log, lateArm>>

\* Message.has_responded()
HasResponded ==
    /\ UNCHANGED fields
    /\ tick' = ~tick
    /\ last' = Outcome("has_responded", TRUE, HasRespondedResult)
    /\ UNCHANGED <<has_responded, async_enabled, timeout, conn, timers, stack,
                   log, lateArm>>

\* Message.is_alive()
IsAlive ==
    /\ UNCHANGED fields
    /\ tick' = ~tick
    /\ last' = Outcome("is_alive", IsAliveResult.ok, IsAliveResult.val)
    /\ UNCHANGED <<has_responded, async_enabled, timeout, conn, timers, stack,
                   log, lateArm>>

Next ==
    \/ \E c \in Conns : SetTimeout(c)
    \/ \E t \in 1..Len(timers) : Fire(t)
    \/ CallbackReturn
    \/ HandlerReturn
    \/ Finish
    \/ \E kw \in Kwargs : Requeue(kw)
    \/ Touch
    \/ EnableAsync
    \/ IsAsync
    \/ HasResponded
    \/ IsAlive

Spec == Init /\ [][Next]_vars

\* ================================================================ claims
\* The step is a call of method op (or, for "callback", a timer firing).
Called(op) == tick' # tick /\ last'.op = op

Names(l) == [i \in DOMAIN l |-> l[i].name]
Count(l, names) == Cardinality({i \in DOMAIN l : l[i].name \in names})
\* a MESSAGE_TIMEOUT callback is running (timers fire only on an empty stack)
InCallback == stack # <<>> /\ stack[1].ev = MESSAGE_TIMEOUT
NotAlive == [ok |-> TRUE, val |-> FALSE]

\* the Message's own state, without the bookkeeping of the calls
state == <<has_responded, async_enabled, timeout, conn, timers, stack, log>>

\* C1: at most one finish()/requeue() succeeds on a Message: a finish() or
\* requeue() called once the Message has responded fails its contract check
\* and triggers nothing, so at most one FINISH or REQUEUE is ever triggered.
C1_RespondOnce ==
    /\ [](Count(log, {FINISH, REQUEUE}) <= 1)
    /\ [][(Called("finish") \/ Called("requeue")) /\ has_responded
            => ~last'.ok /\ log' = log]_vars

\* requeue() succeeded, and a later finish() failed.
C1_Witness ==
    /\ Count(log, {REQUEUE}) = 1
    /\ last = Outcome("finish", FALSE, FALSE)

\* C2: touch() succeeds exactly while the Message has not responded and never
\* makes it responded, so a finish() or requeue() after any number of touch()
\* calls still succeeds; once the Message has responded touch() fails.
C2_TouchNonTerminal ==
    [][ /\ Called("touch") =>
            /\ last'.ok = ~has_responded
            /\ has_responded' = has_responded
        /\ (Called("finish") \/ Called("requeue")) /\ ~has_responded => last'.ok
      ]_vars

\* Two touch() calls, then a successful finish(), then a touch() that fails.
C2_Witness ==
    /\ Names(log) = <<TOUCH, TOUCH, FINISH>>
    /\ last = Outcome("touch", FALSE, FALSE)

\* C3: once a Message that has a timer has responded, is_alive() returns
\* False, and goes on returning False whatever finish(), requeue(), touch()
\* calls and timer turns follow (no _set_timeout is called on it afterwards).
C3_NotAliveAfterResponse ==
    has_responded /\ timeout # 0 /\ ~lateArm => IsAliveResult = NotAlive

\* is_alive() returned False on a responded Message whose timer never fired:
\* the timer was stopped by finish() or requeue().
C3_Witness ==
    /\ has_responded /\ ~lateArm
    /\ timeout # 0 /\ timers[timeout].fired = 0
    /\ last = Outcome("is_alive", TRUE, FALSE)

\* C4: no MESSAGE_TIMEOUT is triggered after the Message's FINISH or REQUEUE
\* (no _set_timeout being called on the responded Message), also when the
\* finish() or requeue() is called from inside a MESSAGE_TIMEOUT handler.
C4_NoStaleTimeout ==
    ~lateArm =>
        \A i, j \in DOMAIN log :
            i < j /\ log[i].name \in {FINISH, REQUEUE}
                => log[j].name # MESSAGE_TIMEOUT

\* finish() was called from inside a MESSAGE_TIMEOUT handler.
C4_Witness ==
    /\ ~lateArm
    /\ Names(log) = <<MESSAGE_TIMEOUT, FINISH>>
    /\ stack = <<Frame(MESSAGE_TIMEOUT), Frame(FINISH)>>

C6_IsAliveContract ==
    [][Called("is_alive") =>
        /\ timers = <<>> => ~last'.ok
        /\ timers # <<>> => last'.ok /\ last'.val = timers[timeout].running
      ]_vars

\* is_alive() failed on a Message that was touched and finished but never armed.
C6_Witness ==
    /\ timers = <<>>
    /\ Names(log) = <<TOUCH, FINISH>>
    /\ async_enabled
    /\ last = Outcome("is_alive", FALSE, FALSE)

\* C7: requeue(delay=d) with an integer d triggers REQUEUE with
\* time_ms = d * 1000 when d > 0, and with delay = d and no time_ms when d <= 0.
C7_DelayNormalised ==
    \A i \in DOMAIN log :
        log[i].name = REQUEUE =>
            \A d \in log[i].args.delay :
                d.type = "int" =>
                    /\ d.val > 0 =>
                        log[i].ctx.kwargs.time_ms = {d.val * 1000}
                    /\ d.val <= 0 =>
                        /\ log[i].ctx.kwargs.delay = {d}
                        /\ log[i].ctx.kwargs.time_ms = {}

\* requeue(delay=2) triggered REQUEUE with time_ms=2000.
C7_Witness ==
    \E i \in DOMAIN log :
        /\ log[i].name = REQUEUE
        /\ log[i].args.delay = {[type |-> "int", val |-> 2]}
        /\ log[i].ctx.kwargs.time_ms = {2000}

\* C8: every MESSAGE_TIMEOUT is triggered on the connection the timer was
\* armed with, and its context carries that connection as conn and the
\* Message as message.
C8_TimeoutContext ==
    \A i \in DOMAIN log :
        log[i].name = MESSAGE_TIMEOUT =>
            /\ log[i].target \in Conns
            /\ log[i].ctx.conn = log[i].target
            /\ log[i].ctx.message = Msg

\* C9: a successful touch() on a Message that has a timer (running or not)
\* leaves it with a new running timer armed with the connection the Message
\* recorded at its last arm, and with every earlier timer stopped.
C9_TouchRearms ==
    [][Called("touch") /\ last'.ok /\ timeout # 0 =>
        /\ timeout' # timeout
        /\ timers'[timeout'].running
        /\ timers'[timeout'].fired = 0
        /\ timers'[timeout'].conn = conn
        /\ conn' = conn
        /\ \A t \in DOMAIN timers : ~timers'[t].running
      ]_vars

\* touch() re-armed a timer that had fired and stopped.
C9_Witness ==
    /\ last = Outcome("touch", TRUE, FALSE)
    /\ Len(timers) = 2
    /\ timers[1].fired = 1 /\ ~timers[1].running
    /\ timers[2].running /\ timers[2].conn = conn
    /\ stack = <<Frame(TOUCH)>>

\* C10: requeue(backoff=b) triggers REQUEUE with backoff = b, for b true and
\* for b false, whatever the normalisation of delay does.
C10_BackoffPreserved ==
    \A i \in DOMAIN log :
        log[i].name = REQUEUE =>
            log[i].ctx.kwargs.backoff = log[i].args.backoff

\* requeue(backoff=False, delay=2): the delay was normalised and backoff kept.
C10_Witness ==
    \E i \in DOMAIN log :
        /\ log[i].name = REQUEUE
        /\ log[i].args.backoff = {FALSE}
        /\ log[i].ctx.kwargs.time_ms = {2000}
        /\ log[i].ctx.kwargs.backoff = {FALSE}

\* C11: is_async() is False on a fresh Message and, once enable_async() has
\* been called, True for ever; is_async() returns the flag; enable_async() is
\* idempotent and changes neither _has_responded nor the timer.
C11_AsyncFlag ==
    /\ ~async_enabled
    /\ [][ /\ async_enabled' # async_enabled => Called("enable_async")
           /\ async_enabled => async_enabled'
           /\ Called("is_async") => last'.val = async_enabled
           /\ Called("enable_async") =>
                /\ async_enabled'
                /\ UNCHANGED <<has_responded, timeout, conn, timers, stack, log>>
                /\ async_enabled => UNCHANGED state
         ]_vars

\* is_async() returned True on a Message that has a timer and has responded
\* since enable_async() was called.
C11_Witness ==
    /\ async_enabled /\ has_responded /\ timeout # 0
    /\ last = Outcome("is_async", TRUE, TRUE)

\* a FINISH or REQUEUE notification is being dispatched
InResponseHandler == \E i \in DOMAIN stack : stack[i].ev \in {FINISH, REQUEUE}

\* C12: finish() and requeue() set _has_responded and stop the timer before
\* they trigger FINISH/REQUEUE: while the notification is dispatched
\* has_responded() is True and the timer is stopped (no _set_timeout being
\* called on the responded Message), and a finish(), requeue() or touch()
\* made from inside the handler fails its contract check.
C12_EffectsBeforeTrigger ==
    /\ [](InResponseHandler =>
            /\ has_responded
            /\ timeout # 0 /\ ~lateArm => IsAliveResult = NotAlive)
    /\ [][InResponseHandler =>
            /\ Called("has_responded") => last'.val
            /\ Called("finish") \/ Called("requeue") \/ Called("touch")
                => ~last'.ok /\ UNCHANGED state
         ]_vars

\* touch() was called from inside the FINISH handler of a Message whose timer
\* was running when finish() was called, and failed.
C12_Witness ==
    /\ stack = <<Frame(FINISH)>>
    /\ Len(timers) = 1 /\ timers[1].fired = 0 /\ ~timers[1].running
    /\ last = Outcome("touch", FALSE, FALSE)

\* C13: an armed timer leads to a MESSAGE_TIMEOUT unless the Message responds
\* first, also when touch() armed it from inside a MESSAGE_TIMEOUT handler.
\* A stopped PeriodicCallback is never run by the loop, so the claim needs
\* this: after a successful touch() of a Message that has a timer, and until
\* the next call or firing, the timer touch() armed is running.
C13_ArmedTimerWillFire ==
    last = Outcome("touch", TRUE, FALSE) /\ timeout # 0
        /\ ~has_responded /\ timers[timeout].fired = 0
        => timers[timeout].running

\* C14: a finish(), requeue() or touch() called on a Message that has
\* responded fails its contract check and has no effect: _has_responded stays
\* True, the timer, the connection and _async_enabled are as they were, and no
\* notification is triggered or dispatched.
C14_FailedCallNoEffect ==
    [][(Called("finish") \/ Called("requeue") \/ Called("touch"))
            /\ has_responded
        => /\ ~last'.ok
           /\ has_responded'
           /\ UNCHANGED state
      ]_vars

\* requeue() failed on a finished, asynchronous Message whose re-armed timer
\* finish() had stopped.
C14_Witness ==
    /\ last = Outcome("requeue", FALSE, FALSE)
    /\ Names(log) = <<TOUCH, FINISH>>
    /\ async_enabled
    /\ Len(timers) = 2 /\ ~timers[2].running /\ timers[2].fired = 0

Running == {t \in DOMAIN timers : timers[t].running}

\* C15: a Message has at most one running timer, the current one: arming
\* stops the timer the Message holds before the new one is started, and a
\* timer that was replaced never fires again.
C15_OneRunningTimer ==
    /\ [](Cardinality(Running) <= 1 /\ Running \subseteq {timeout})
    /\ [][\A t \in DOMAIN timers :
            timers'[t].fired # timers[t].fired => t = timeout]_vars

\* _set_timeout replaced a timer that was still running and had not fired.
C15_Witness ==
    /\ last = Outcome("_set_timeout", TRUE, FALSE)
    /\ Len(timers) = 2 /\ timeout = 2
    /\ ~timers[1].running /\ timers[1].fired = 0
    /\ timers[2].running

\* C16: a successful touch() triggers exactly one TOUCH, on the Message and
\* with the Message as context, and the timer is already re-armed when TOUCH
\* is dispatched; on a Message that never had a timer touch() triggers TOUCH
\* and creates no timer, so is_alive() still fails.
C16_TouchNotifies ==
    [][Called("touch") /\ last'.ok =>
        /\ Len(log') = Len(log) + 1
        /\ SubSeq(log', 1, Len(log)) = log
        /\ log'[Len(log')].name = TOUCH
        /\ log'[Len(log')].target = Msg
        /\ log'[Len(log')].ctx = [message |-> Msg]
        /\ stack' = Append(stack, Frame(TOUCH))
        /\ timeout # 0 => IsAliveResult' = [ok |-> TRUE, val |-> TRUE]
        /\ timeout = 0 => timers' = <<>> /\ timeout' = 0 /\ ~IsAliveResult'.ok
      ]_vars

\* touch() on a Message that never had a timer: TOUCH was triggered, there
\* is no timer, and is_alive() called from the TOUCH handler failed.
C16_Witness ==
    /\ timers = <<>> /\ timeout = 0
    /\ Names(log) = <<TOUCH>>
    /\ stack = <<Frame(TOUCH)>>
    /\ last = Outcome("is_alive", FALSE, FALSE)

\* C17 as claimed: requeue() called without backoff and without delay
\* triggers REQUEUE with backoff = True and delay = -1 in its context.
C17_DefaultsInContext ==
    \A i \in DOMAIN log :
        log[i].name = REQUEUE /\ log[i].args.backoff = {} /\ log[i].args.delay = {}
            => /\ log[i].ctx.kwargs.backoff = {TRUE}
               /\ log[i].ctx.kwargs.delay = {[type |-> "int", val |-> -1]}

\* C17 as amended: requeue() called without backoff and without delay
\* triggers REQUEUE with the Message alone as context: neither backoff, nor
\* delay, nor time_ms is in it.
C17_NoDefaultsAdded ==
    \A i \in DOMAIN log :
        log[i].name = REQUEUE /\ log[i].args.backoff = {} /\ log[i].args.delay = {}
            => /\ log[i].ctx.message = Msg
               /\ log[i].ctx.kwargs.backoff = {}
               /\ log[i].ctx.kwargs.delay = {}
               /\ log[i].ctx.kwargs.time_ms = {}

\* requeue() was called with no keyword argument.
C17_Witness ==
    \E i \in DOMAIN log : log[i].name = REQUEUE /\ log[i].args = NoKwargs

\* C18: _has_responded is False on a fresh Message and goes only from False
\* to True, by a finish() or requeue() call; has_responded() is True exactly
\* when one FINISH or REQUEUE has been triggered and False exactly when none
\* has; arming, timer firings, touch() and enable_async() never change it.
C18_RespondedFlag ==
    /\ ~has_responded
    /\ [](Count(log, {FINISH, REQUEUE}) = IF has_responded THEN 1 ELSE 0)
    /\ [][ /\ has_responded => has_responded'
           /\ has_responded' # has_responded
                => Called("finish") \/ Called("requeue")
           /\ Called("has_responded")
                => last'.val = (Count(log, {FINISH, REQUEUE}) = 1)
         ]_vars

\* has_responded() returned True after a touch(), a timer firing and a
\* requeue() on a Message that is not asynchronous.
C18_Witness ==
    /\ last = Outcome("has_responded", TRUE, TRUE)
    /\ Names(log) = <<TOUCH, MESSAGE_TIMEOUT, REQUEUE>>
    /\ ~async_enabled

\* C19: no method, arm or timer firing changes id, body, timestamp or
\* attempts, and is_async(), has_responded() and is_alive() change nothing of
\* the Message at all.
C19_FieldsImmutable ==
    [][ /\ UNCHANGED <<id, body, timestamp, attempts>>
        /\ Called("is_async") \/ Called("has_responded") \/ Called("is_alive")
            => UNCHANGED state
      ]_vars

\* The Message after an arm, a firing, a touch(), a requeue() and a last
\* is_alive(): its fields are those it was constructed with.
C19_Witness ==
    /\ <<id, body, timestamp, attempts>> = <<"id1", "body", 2, 3>>
    /\ Names(log) = <<MESSAGE_TIMEOUT, TOUCH, REQUEUE>>
    /\ async_enabled
    /\ last = Outcome("is_alive", TRUE, FALSE)

====
